---- MODULE Spec2Model ----
(***************************************************************************)
(* json-formatter: the line-based recursive-descent parser (parser.rs),    *)
(* the indenting formatter (formatter.rs) and the driver that chains them  *)
(* (main.rs, fn format).                                                   *)
(*                                                                         *)
(* A text is a sequence of one-character strings; the line break is the    *)
(* character NL.  The parser reads the text through BufRead::lines, so it  *)
(* only ever sees the characters of the lines, never a line break.         *)
(***************************************************************************)
EXTENDS Integers, Sequences, FiniteSets, TLC

VARIABLES
    input,      \* the text behind the reader handed to Parser::new
    parser,     \* Parser { pos, lines, line, line_number }
    stack,      \* the call stack of parse_object / parse_array / parse_value
    ret,        \* the Result<Value> travelling back to the caller
    formatter,  \* Formatter { depth }
    out,        \* the String returned by Formatter::format
    phase,      \* where the driver is: "parsing", "formatted", "failed"
    run         \* 1: the first run; 2: the run on the first run's output

vars == <<input, parser, stack, ret, formatter, out, phase, run>>

(***************************************************************************)
(* Characters                                                              *)
(***************************************************************************)
NL == "\n"
SP == " "
Q == "\""
NoChar == "None"

\* char::is_whitespace, on the characters of the model's alphabet
IsWhitespace(ch) == ch = SP

\* char::is_digit(10)
IsDigit(ch) == ch \in {"0", "1", "2", "3", "4", "5", "6", "7", "8", "9"}

(***************************************************************************)
(* ast.rs                                                                  *)
(***************************************************************************)
StringValue(s) == [type |-> "String", text |-> s, items |-> <<>>]
NumberValue(s) == [type |-> "Number", text |-> s, items |-> <<>>]
ObjectValue(pairs) == [type |-> "Object", text |-> <<>>, items |-> pairs]
ArrayValue(values) == [type |-> "Array", text |-> <<>>, items |-> values]
Pair(key, value) == [key |-> key, value |-> value]
NoValue == [type |-> "None", text |-> <<>>, items |-> <<>>]

(***************************************************************************)
(* The reader: std::io::BufRead::lines.  A line ends at a line break; the  *)
(* text after the last line break is a line only when it is not empty.     *)
(***************************************************************************)
RECURSIVE ReadLines(_, _)
ReadLines(text, cur) ==
    IF text = <<>> THEN (IF cur = <<>> THEN <<>> ELSE <<cur>>)
    ELSE IF Head(text) = NL THEN <<cur>> \o ReadLines(Tail(text), <<>>)
    ELSE ReadLines(Tail(text), Append(cur, Head(text)))

NoLine == [some |-> FALSE, chars |-> <<>>]
SomeLine(l) == [some |-> TRUE, chars |-> l]

\* Lines::next, with the iterator's remainder
NextLine(ls) ==
    IF ls = <<>> THEN [line |-> NoLine, lines |-> <<>>]
    ELSE [line |-> SomeLine(Head(ls)), lines |-> Tail(ls)]

(***************************************************************************)
(* Parser: the cursor                                                      *)
(***************************************************************************)
ParserNew(reader) ==
    LET n == NextLine(ReadLines(reader, <<>>))
    IN  [pos |-> 0, lines |-> n.lines, line |-> n.line, line_number |-> 1]

\* the while loop of succ with a fault: the next line is fetched but
\* line_number is not counted up
RECURSIVE SuccLoopNoCount(_)
SuccLoopNoCount(p) ==
    IF ~p.line.some THEN p
    ELSE IF p.pos < Len(p.line.chars) THEN p
    ELSE LET n == NextLine(p.lines)
         IN  SuccLoopNoCount([pos |-> 0, lines |-> n.lines, line |-> n.line,
                              line_number |-> p.line_number])

\* the while loop of succ
RECURSIVE SuccLoop(_)
SuccLoop(p) ==
    IF ~p.line.some THEN p
    ELSE IF p.pos < Len(p.line.chars) THEN p
    ELSE LET n == NextLine(p.lines)
         IN  SuccLoop([pos |-> 0, lines |-> n.lines, line |-> n.line,
                       line_number |-> p.line_number + 1])

Succ(p) == SuccLoop([p EXCEPT !.pos = p.pos + 1])

GetCurChar(p) ==
    IF p.line.some /\ p.pos < Len(p.line.chars)
    THEN p.line.chars[p.pos + 1]
    ELSE NoChar

CurCharIs(p, ch) == GetCurChar(p) = ch

\* the message of a ParseError: what it says, the characters it expected and
\* the character it found
Message(kind, expect, found) == [kind |-> kind, expect |-> expect, found |-> found]

NoError == [message |-> Message("none", <<>>, NoChar), line_number |-> 0]
ParseError(message, line_number) ==
    [message |-> message, line_number |-> line_number]

\* Result<()> of expect_char: the cursor is not touched
ExpectChar(p, expect) ==
    LET actual == GetCurChar(p)
    IN  IF actual = NoChar
        THEN [ok |-> FALSE, err |-> ParseError(Message("expected", <<expect>>, NoChar), p.line_number)]
        ELSE IF expect # actual
        THEN [ok |-> FALSE,
              err |-> ParseError(Message("expected", <<expect>>, actual), p.line_number)]
        ELSE [ok |-> TRUE, err |-> NoError]

\* consume_char with a fault: the cursor moves whether or not expect_char succeeded
ConsumeCharAlways(p, ch) ==
    LET e == ExpectChar(p, ch)
    IN  [ok |-> e.ok, err |-> e.err, p |-> Succ(p)]

\* consume_char: the cursor moves only when expect_char succeeded
ConsumeChar(p, ch) ==
    LET e == ExpectChar(p, ch)
    IN  IF e.ok THEN [ok |-> TRUE, err |-> NoError, p |-> Succ(p)]
        ELSE [ok |-> FALSE, err |-> e.err, p |-> p]

\* skip_whitespace with a fault: an if in place of the while
SkipWhitespaceOnce(p) ==
    IF GetCurChar(p) # NoChar /\ IsWhitespace(GetCurChar(p)) THEN Succ(p) ELSE p

RECURSIVE SkipWhitespace(_)
SkipWhitespace(p) ==
    IF GetCurChar(p) # NoChar /\ IsWhitespace(GetCurChar(p))
    THEN SkipWhitespace(Succ(p))
    ELSE p

(***************************************************************************)
(* Parser: the literals                                                    *)
(***************************************************************************)
\* the while loop of parse_inner_string
RECURSIVE InnerStringLoop(_, _)
InnerStringLoop(p, s) ==
    LET ch == GetCurChar(p)
    IN  IF ch = NoChar \/ ch = Q THEN [p |-> p, s |-> s]
        ELSE InnerStringLoop(Succ(p), Append(s, ch))

ParseInnerString(p) ==
    LET left == ConsumeChar(p, Q)
    IN  IF ~left.ok THEN [ok |-> FALSE, err |-> left.err, p |-> left.p, s |-> <<>>]
        ELSE LET body == InnerStringLoop(left.p, <<>>)
                 right == ConsumeChar(body.p, Q)
             IN  IF ~right.ok
                 THEN [ok |-> FALSE, err |-> right.err, p |-> right.p, s |-> <<>>]
                 ELSE [ok |-> TRUE, err |-> NoError, p |-> right.p, s |-> body.s]

ParseStringValue(p) ==
    LET r == ParseInnerString(p)
    IN  [ok |-> r.ok, err |-> r.err, p |-> r.p,
         val |-> IF r.ok THEN StringValue(r.s) ELSE NoValue]

ParseStringKey(p) == ParseInnerString(p)

\* the closure valid of parse_number with a fault: the dot is left out
NumberCharDigitsOnly(ch) == IsDigit(ch)

NumberChar(ch) == IsDigit(ch) \/ ch = "."

\* the while loop of parse_number
RECURSIVE NumberLoop(_, _)
NumberLoop(p, num) ==
    LET ch == GetCurChar(p)
    IN  IF ch # NoChar /\ NumberChar(ch)
        THEN NumberLoop(Succ(p), Append(num, ch))
        ELSE [p |-> p, num |-> num]

ParseNumber(p) ==
    LET sign == IF GetCurChar(p) = "-"
                THEN [p |-> Succ(p), num |-> <<"-">>]
                ELSE [p |-> p, num |-> <<>>]
        r == NumberLoop(sign.p, sign.num)
    IN  [ok |-> TRUE, err |-> NoError, p |-> r.p, val |-> NumberValue(r.num)]

(***************************************************************************)
(* formatter.rs.  format takes &mut self: every operator returns the       *)
(* Formatter it leaves behind together with the text.                      *)
(***************************************************************************)
IndentWidth == 4

FormatterNew == [depth |-> 0]

Indent(f) == [i \in 1..(IndentWidth * f.depth) |-> SP]

\* format_string with a fault: the quotes are left out
FormatStringBare(f, s) == s

FormatString(f, s) == <<Q>> \o s \o <<Q>>

FormatNumber(f, num) == num

\* Vec<String>::join
RECURSIVE Join(_, _)
Join(parts, sep) ==
    IF parts = <<>> THEN <<>>
    ELSE IF Len(parts) = 1 THEN Head(parts)
    ELSE Head(parts) \o sep \o Join(Tail(parts), sep)

RECURSIVE Format(_, _)
RECURSIVE FormatPairs(_, _)
RECURSIVE FormatValues(_, _)

\* the closure mapped over the pairs, in order: indent first, then the value
FormatPairs(f, pairs) ==
    IF pairs = <<>> THEN [f |-> f, parts |-> <<>>]
    ELSE LET p == Head(pairs)
             ind == Indent(f)
             r == Format(f, p.value)
             rest == FormatPairs(r.f, Tail(pairs))
         IN  [f |-> rest.f,
              parts |-> <<ind \o <<Q>> \o p.key \o <<Q, ":", SP>> \o r.text>>
                        \o rest.parts]

\* the closure mapped over the values, in order
FormatValues(f, values) ==
    IF values = <<>> THEN [f |-> f, parts |-> <<>>]
    ELSE LET ind == Indent(f)
             r == Format(f, Head(values))
             rest == FormatValues(r.f, Tail(values))
         IN  [f |-> rest.f, parts |-> <<ind \o r.text>> \o rest.parts]

\* format_object with a fault: the closing brace is indented before depth is
\* decremented, and depth is left as it is
FormatObjectNoRestore(f, pairs) ==
    IF pairs = <<>> THEN [f |-> f, text |-> <<"{", "}">>]
    ELSE LET inner == FormatPairs([f EXCEPT !.depth = @ + 1], pairs)
         IN  [f |-> inner.f,
              text |-> <<"{", NL>> \o Join(inner.parts, <<",", NL>>)
                       \o <<NL>> \o Indent(inner.f) \o <<"}">>]

FormatObject(f, pairs) ==
    IF pairs = <<>> THEN [f |-> f, text |-> <<"{", "}">>]
    ELSE LET inner == FormatPairs([f EXCEPT !.depth = @ + 1], pairs)
             f2 == [inner.f EXCEPT !.depth = @ - 1]
         IN  [f |-> f2,
              text |-> <<"{", NL>> \o Join(inner.parts, <<",", NL>>)
                       \o <<NL>> \o Indent(f2) \o <<"}">>]

FormatArray(f, values) ==
    IF values = <<>> THEN [f |-> f, text |-> <<"[", "]">>]
    ELSE LET inner == FormatValues([f EXCEPT !.depth = @ + 1], values)
             f2 == [inner.f EXCEPT !.depth = @ - 1]
         IN  [f |-> f2,
              text |-> <<"[", NL>> \o Join(inner.parts, <<",", NL>>)
                       \o <<NL>> \o Indent(f2) \o <<"]">>]

Format(f, v) ==
    CASE v.type = "String" -> [f |-> f, text |-> FormatString(f, v.text)]
      [] v.type = "Number" -> [f |-> f, text |-> FormatNumber(f, v.text)]
      [] v.type = "Object" -> FormatObject(f, v.items)
      [] v.type = "Array" -> FormatArray(f, v.items)

(***************************************************************************)
(* Parser: the recursive descent.  A frame is one activation of            *)
(* parse_value, parse_object or parse_array; pc is its position, acc its   *)
(* pairs or values so far, key the key of the pair being parsed.           *)
(***************************************************************************)
Frame(fn, pc, acc, key) == [fn |-> fn, pc |-> pc, acc |-> acc, key |-> key]
ValueFrame == Frame("parse_value", "entry", <<>>, <<>>)

Top == stack[Len(stack)]
Caller == SubSeq(stack, 1, Len(stack) - 1)

NoRet == [tag |-> "none", val |-> NoValue, err |-> NoError]
Ok(v) == [tag |-> "ok", val |-> v, err |-> NoError]
Err(e) == [tag |-> "err", val |-> NoValue, err |-> e]

Running == phase = "parsing" /\ stack # <<>>

\* parse_value: skip_whitespace and the dispatch.  Each arm hands over to the
\* function it calls, whose result is parse_value's result
ParseValue ==
    /\ Running /\ Top.fn = "parse_value" /\ ret.tag = "none"
    /\ LET p == SkipWhitespace(parser)
           ch == GetCurChar(p)
       IN  CASE ch = "{" ->
                  /\ parser' = p
                  /\ stack' = Append(Caller, Frame("parse_object", "entry", <<>>, <<>>))
                  /\ ret' = ret
             [] ch = "[" ->
                  /\ parser' = p
                  /\ stack' = Append(Caller, Frame("parse_array", "entry", <<>>, <<>>))
                  /\ ret' = ret
             [] ch = Q ->
                  /\ parser' = p
                  /\ stack' = Append(Caller, Frame("parse_string_value", "entry", <<>>, <<>>))
                  /\ ret' = ret
             [] ch = "-" \/ IsDigit(ch) ->
                  /\ parser' = p
                  /\ stack' = Append(Caller, Frame("parse_number", "entry", <<>>, <<>>))
                  /\ ret' = ret
             [] ch = NoChar ->
                  /\ parser' = p
                  /\ stack' = Caller
                  /\ ret' = Err(ParseError(Message("no token found", <<>>, NoChar), p.line_number))
             [] OTHER ->
                  /\ parser' = p
                  /\ stack' = Caller
                  /\ ret' = Err(ParseError(Message("invalid token", <<>>, ch), p.line_number))
    /\ UNCHANGED <<input, formatter, out, phase, run>>

\* parse_string_value, from its call to its return
ParseStringValueCall ==
    /\ Running /\ Top.fn = "parse_string_value"
    /\ LET r == ParseStringValue(parser)
       IN  /\ parser' = r.p
           /\ stack' = Caller
           /\ ret' = IF r.ok THEN Ok(r.val) ELSE Err(r.err)
    /\ UNCHANGED <<input, formatter, out, phase, run>>

\* parse_number, from its call to its return
ParseNumberCall ==
    /\ Running /\ Top.fn = "parse_number"
    /\ LET r == ParseNumber(parser)
       IN  /\ parser' = r.p
           /\ stack' = Caller
           /\ ret' = IF r.ok THEN Ok(r.val) ELSE Err(r.err)
    /\ UNCHANGED <<input, formatter, out, phase, run>>

\* parse_object up to the loop
ParseObjectEntry ==
    /\ Running /\ Top.fn = "parse_object" /\ Top.pc = "entry"
    /\ LET e == ExpectChar(parser, "{")
       IN  IF ~e.ok
           THEN /\ parser' = parser
                /\ stack' = Caller
                /\ ret' = Err(e.err)
           ELSE LET p == SkipWhitespace(Succ(parser))
                IN  IF CurCharIs(p, "}")
                    THEN /\ parser' = Succ(p)
                         /\ stack' = Caller
                         /\ ret' = Ok(ObjectValue(<<>>))
                    ELSE /\ parser' = p
                         /\ stack' = Append(Caller, [Top EXCEPT !.pc = "loop"])
                         /\ ret' = ret
    /\ UNCHANGED <<input, formatter, out, phase, run>>

\* one turn of parse_object's loop, up to the call of parse_value
ParseObjectPair ==
    /\ Running /\ Top.fn = "parse_object" /\ Top.pc = "loop"
    /\ LET k == ParseStringKey(SkipWhitespace(parser))
       IN  IF ~k.ok
           THEN /\ parser' = k.p
                /\ stack' = Caller
                /\ ret' = Err(k.err)
           ELSE LET c == ConsumeChar(SkipWhitespace(k.p), ":")
                IN  IF ~c.ok
                    THEN /\ parser' = c.p
                         /\ stack' = Caller
                         /\ ret' = Err(c.err)
                    ELSE /\ parser' = c.p
                         /\ stack' = Caller \o <<[Top EXCEPT !.pc = "value", !.key = k.s],
                                                 ValueFrame>>
                         /\ ret' = NoRet
    /\ UNCHANGED <<input, formatter, out, phase, run>>

\* the rest of the turn, once parse_value has returned a value
ParseObjectNext ==
    /\ Running /\ Top.fn = "parse_object" /\ Top.pc = "value" /\ ret.tag = "ok"
    /\ LET p == SkipWhitespace(parser)
           pairs == Append(Top.acc, Pair(Top.key, ret.val))
           ch == GetCurChar(p)
       IN  CASE ch = "," ->
                  /\ parser' = Succ(p)
                  /\ stack' = Append(Caller, [Top EXCEPT !.pc = "loop", !.acc = pairs,
                                                         !.key = <<>>])
                  /\ ret' = NoRet
             [] ch = "}" ->
                  LET e == ExpectChar(p, "}")
                  IN  /\ parser' = IF e.ok THEN Succ(p) ELSE p
                      /\ stack' = Caller
                      /\ ret' = IF e.ok THEN Ok(ObjectValue(pairs)) ELSE Err(e.err)
             [] ch = NoChar ->
                  /\ parser' = p
                  /\ stack' = Caller
                  /\ ret' = Err(ParseError(Message("expected", <<",", "}">>, NoChar), p.line_number))
             [] OTHER ->
                  /\ parser' = p
                  /\ stack' = Caller
                  /\ ret' = Err(ParseError(Message("expected", <<",", "}">>, ch), p.line_number))
    /\ UNCHANGED <<input, formatter, out, phase, run>>

\* parse_array up to the loop
ParseArrayEntry ==
    /\ Running /\ Top.fn = "parse_array" /\ Top.pc = "entry"
    /\ LET c == ConsumeChar(parser, "[")
       IN  IF ~c.ok
           THEN /\ parser' = c.p
                /\ stack' = Caller
                /\ ret' = Err(c.err)
           ELSE LET p == SkipWhitespace(c.p)
                IN  IF CurCharIs(p, "]")
                    THEN /\ parser' = Succ(p)
                         /\ stack' = Caller
                         /\ ret' = Ok(ArrayValue(<<>>))
                    ELSE /\ parser' = p
                         /\ stack' = Append(Caller, [Top EXCEPT !.pc = "loop"])
                         /\ ret' = ret
    /\ UNCHANGED <<input, formatter, out, phase, run>>

\* one turn of parse_array's loop: the call of parse_value
ParseArrayElem ==
    /\ Running /\ Top.fn = "parse_array" /\ Top.pc = "loop"
    /\ stack' = Caller \o <<[Top EXCEPT !.pc = "value"], ValueFrame>>
    /\ ret' = NoRet
    /\ UNCHANGED <<input, parser, formatter, out, phase, run>>

\* the rest of the turn, once parse_value has returned a value
ParseArrayNext ==
    /\ Running /\ Top.fn = "parse_array" /\ Top.pc = "value" /\ ret.tag = "ok"
    /\ LET p == SkipWhitespace(parser)
           values == Append(Top.acc, ret.val)
           ch == GetCurChar(p)
       IN  CASE ch = "," ->
                  /\ parser' = Succ(p)
                  /\ stack' = Append(Caller, [Top EXCEPT !.pc = "loop", !.acc = values])
                  /\ ret' = NoRet
             [] ch = "]" ->
                  LET c == ConsumeChar(p, "]")
                  IN  /\ parser' = c.p
                      /\ stack' = Caller
                      /\ ret' = IF c.ok THEN Ok(ArrayValue(values)) ELSE Err(c.err)
             [] ch = NoChar ->
                  /\ parser' = p
                  /\ stack' = Caller
                  /\ ret' = Err(ParseError(Message("expected", <<",", "]">>, NoChar), p.line_number))
             [] OTHER ->
                  /\ parser' = p
                  /\ stack' = Caller
                  /\ ret' = Err(ParseError(Message("expected", <<",", "]">>, ch), p.line_number))
    /\ UNCHANGED <<input, formatter, out, phase, run>>

\* the ? on parse_value's result in parse_object and parse_array: an error
\* returns from the caller as it is
Propagate ==
    /\ Running /\ Top.pc = "value" /\ ret.tag = "err"
    /\ stack' = Caller
    /\ UNCHANGED <<input, parser, ret, formatter, out, phase, run>>

(***************************************************************************)
(* main.rs: fn format, and a second run of it on what the first printed    *)
(***************************************************************************)
\* Ok(Formatter::new().format(v))
DriverFormat ==
    /\ phase = "parsing" /\ stack = <<>> /\ ret.tag = "ok"
    /\ LET r == Format(FormatterNew, ret.val)
       IN  /\ out' = r.text
           /\ formatter' = r.f
    /\ phase' = "formatted"
    /\ UNCHANGED <<input, parser, stack, ret, run>>

\* the ? on Parser::new(reader).parse_value()
DriverFail ==
    /\ phase = "parsing" /\ stack = <<>> /\ ret.tag = "err"
    /\ phase' = "failed"
    /\ UNCHANGED <<input, parser, stack, ret, formatter, out, run>>

\* the program is run again on the text it produced
DriverRerun ==
    /\ phase = "formatted" /\ run = 1
    /\ input' = out
    /\ parser' = ParserNew(out)
    /\ stack' = <<ValueFrame>>
    /\ ret' = NoRet
    /\ formatter' = FormatterNew
    /\ out' = <<>>
    /\ phase' = "parsing"
    /\ run' = 2

(***************************************************************************)
(* The inputs: every text of at most MaxLen characters, and every text one *)
(* edit away from a seed document.                                         *)
(***************************************************************************)
MaxLen == 4

Alphabet == {"{", "}", "[", "]", Q, ":", ",", "-", ".", "1", "a", SP, NL}

ShortTexts == UNION {[1..n -> Alphabet] : n \in 0..MaxLen}

Seeds == {
    \* {"a":1,"b":"a"}
    <<"{", Q, "a", Q, ":", "1", ",", Q, "b", Q, ":", Q, "a", Q, "}">>,
    \* ["a","b",1,2,{},{},[],[]]
    <<"[", Q, "a", Q, ",", Q, "b", Q, ",", "1", ",", "2", ",", "{", "}", ",",
      "{", "}", ",", "[", "]", ",", "[", "]", "]">>,
    \* {"a":{"b":[1,2]},"a":[]}
    <<"{", Q, "a", Q, ":", "{", Q, "b", Q, ":", "[", "1", ",", "2", "]", "}", ",",
      Q, "a", Q, ":", "[", "]", "}">>,
    \* {"a":"b","a":1,"b":{},"a":[],"b":2}
    <<"{", Q, "a", Q, ":", Q, "b", Q, ",", Q, "a", Q, ":", "1", ",", Q, "b", Q, ":",
      "{", "}", ",", Q, "a", Q, ":", "[", "]", ",", Q, "b", Q, ":", "2", "}">>,
    \* four lines: {  /  "a": 12,  /  "b": -.5  /  }
    <<"{", NL, Q, "a", Q, ":", SP, "1", "2", ",", NL, Q, "b", Q, ":", SP, "-", ".", "5",
      NL, "}">>,
    \* two lines: {"a":{_  /  },"b":[  /  _]}  (_ a space)
    <<"{", Q, "a", Q, ":", "{", SP, NL, "}", ",", Q, "b", Q, ":", "[", NL, SP, "]", "}">>
}

Prefixes(s) == {SubSeq(s, 1, n) : n \in 0..Len(s)}
Deletions(s) == {SubSeq(s, 1, i - 1) \o SubSeq(s, i + 1, Len(s)) : i \in 1..Len(s)}
Replacements(s) ==
    {[s EXCEPT ![i] = c] : i \in 1..Len(s), c \in Alphabet}
Insertions(s) ==
    {SubSeq(s, 1, i) \o <<c>> \o SubSeq(s, i + 1, Len(s)) : i \in 0..Len(s), c \in Alphabet}

EditedSeeds ==
    UNION {{s} \cup Prefixes(s) \cup Deletions(s) \cup Replacements(s) \cup Insertions(s)
           : s \in Seeds}

Inputs == ShortTexts \cup EditedSeeds

Init ==
    /\ input \in Inputs
    /\ parser = ParserNew(input)
    /\ stack = <<ValueFrame>>
    /\ ret = NoRet
    /\ formatter = FormatterNew
    /\ out = <<>>
    /\ phase = "parsing"
    /\ run = 1

Next ==
    \/ ParseValue
    \/ ParseStringValueCall
    \/ ParseNumberCall
    \/ ParseObjectEntry
    \/ ParseObjectPair
    \/ ParseObjectNext
    \/ ParseArrayEntry
    \/ ParseArrayElem
    \/ ParseArrayNext
    \/ Propagate
    \/ DriverFormat
    \/ DriverFail
    \/ DriverRerun

Spec == Init /\ [][Next]_vars

\* the program has ended: it has reported the error, or printed the text of
\* its second run.  These are the states in which no step is possible
Done == phase = "failed" \/ (phase = "formatted" /\ run = 2)

\* the program is one sequential thread: while a step is possible, one is
\* taken.  This is WF_vars(Next), its ENABLED <<Next>>_vars written as ~Done
FairSpec == Spec /\ ([]<>Done \/ []<><<Next>>_vars)

(***************************************************************************)
(* What the claims are stated in                                           *)
(***************************************************************************)
RECURSIVE Concat(_)
Concat(ls) == IF ls = <<>> THEN <<>> ELSE Head(ls) \o Concat(Tail(ls))

\* the characters of the stream that lie at or after the cursor
RestChars(p) ==
    IF p.line.some
    THEN SubSeq(p.line.chars, p.pos + 1, Len(p.line.chars)) \o Concat(p.lines)
    ELSE <<>>

FirstNonWhitespace(s) ==
    IF \E i \in 1..Len(s) : s[i] # SP
    THEN s[CHOOSE i \in 1..Len(s) : s[i] # SP /\ \A j \in 1..(i - 1) : s[j] = SP]
    ELSE NoChar

\* parse_value has returned to the driver
Returned == stack = <<>> /\ ret.tag # "none"

(***************************************************************************)
(* C1: once a text has been formatted, formatting it again changes         *)
(* nothing: when the program is run on the text y it printed, parsing y    *)
(* raises no error and the text printed for y is y, character for          *)
(* character.                                                              *)
(***************************************************************************)
C1_RoundTrip ==
    run = 2 => /\ ret.tag # "err"
               /\ phase # "failed"
               /\ (phase = "formatted" => out = input)

\* the second run has printed a nested document of several lines
C1_Witness ==
    /\ run = 2 /\ phase = "formatted" /\ out = input
    /\ ret.val.type = "Object" /\ Len(ret.val.items) >= 2
    /\ \E i \in 1..Len(ret.val.items) :
          /\ ret.val.items[i].value.type = "Object"
          /\ ret.val.items[i].value.items # <<>>

(***************************************************************************)
(* C2: when parse_value returns a Value to the driver, the cursor is at    *)
(* the end of the input: no character other than whitespace is left        *)
(* unread.                                                                 *)
(***************************************************************************)
C2_ConsumesWholeInput ==
    (run = 1 /\ Returned /\ ret.tag = "ok")
        => \A i \in 1..Len(RestChars(parser)) : RestChars(parser)[i] = SP

(***************************************************************************)
(* C3: wherever parse_value starts, skip_whitespace followed by            *)
(* get_cur_char yields the first character of the remaining stream that    *)
(* is not whitespace, and none only when there is none, whatever lines of  *)
(* the stream are empty.                                                   *)
(***************************************************************************)
C3_SkipWhitespaceReachesToken ==
    (Running /\ Top.fn = "parse_value" /\ ret.tag = "none")
        => GetCurChar(SkipWhitespace(parser)) = FirstNonWhitespace(RestChars(parser))

(***************************************************************************)
(* The source text read token by token, line breaks being whitespace: a    *)
(* string literal runs from a quote to the next quote, a number literal is *)
(* an optional minus sign and the digits and dots that follow it.          *)
(***************************************************************************)
RawDigitOrDot(c) == c \in {"0", "1", "2", "3", "4", "5", "6", "7", "8", "9", "."}

\* the length of the longest prefix of t made of digits and dots
RawRun(t) ==
    CHOOSE n \in 0..Len(t) :
        /\ \A i \in 1..n : RawDigitOrDot(t[i])
        /\ (n < Len(t) => ~RawDigitOrDot(t[n + 1]))

Token(kind, text) == [kind |-> kind, text |-> text]

RECURSIVE RawTokens(_)
RawTokens(t) ==
    IF t = <<>> THEN <<>>
    ELSE LET c == Head(t)
             r == Tail(t)
         IN  IF c = SP \/ c = NL THEN RawTokens(r)
             ELSE IF c = Q
             THEN IF \E i \in 1..Len(r) : r[i] = Q
                  THEN LET n == CHOOSE i \in 1..Len(r) :
                                    r[i] = Q /\ \A j \in 1..(i - 1) : r[j] # Q
                       IN  <<Token("string", SubSeq(r, 1, n - 1))>>
                           \o RawTokens(SubSeq(r, n + 1, Len(r)))
                  ELSE <<Token("unterminated", r)>>
             ELSE IF c = "-"
             THEN <<Token("number", <<c>> \o SubSeq(r, 1, RawRun(r)))>>
                  \o RawTokens(SubSeq(r, RawRun(r) + 1, Len(r)))
             ELSE IF RawDigitOrDot(c)
             THEN <<Token("number", SubSeq(t, 1, RawRun(t)))>>
                  \o RawTokens(SubSeq(t, RawRun(t) + 1, Len(t)))
             ELSE <<Token("punct", <<c>>)>> \o RawTokens(r)

IsOpener(tok) == tok.kind = "punct" /\ tok.text \in {<<"{">>, <<"[">>}
IsCloser(tok) == tok.kind = "punct" /\ tok.text \in {<<"}">>, <<"]">>}
EndsValue(tok) == tok.kind \in {"string", "number"} \/ IsCloser(tok)
StartsValue(tok) == tok.kind \in {"string", "unterminated", "number"} \/ IsOpener(tok)

\* how many composites are open after the first i tokens
RECURSIVE Depth(_, _)
Depth(toks, i) ==
    IF i = 0 THEN 0
    ELSE Depth(toks, i - 1)
         + (IF IsOpener(toks[i]) THEN 1 ELSE IF IsCloser(toks[i]) THEN -1 ELSE 0)

\* the opener of the composite that is open after the first i tokens
Enclosing(toks, i) ==
    LET d == Depth(toks, i)
        j == CHOOSE j \in 1..i :
                 /\ IsOpener(toks[j]) /\ Depth(toks, j) = d
                 /\ \A k \in j..i : Depth(toks, k) >= d
    IN  toks[j].text[1]

\* inside the first value of the text, two elements of an array, or a value
\* and the key of the next pair of an object, follow each other with nothing
\* but whitespace between them
MissingComma(text) ==
    LET toks == RawTokens(text)
    IN  \E i \in 1..(Len(toks) - 1) :
          /\ \A k \in 1..i : Depth(toks, k) >= 1
          /\ EndsValue(toks[i])
          /\ \/ Enclosing(toks, i) = "[" /\ StartsValue(toks[i + 1])
             \/ Enclosing(toks, i) = "{" /\ toks[i + 1].kind \in {"string", "unterminated"}
                /\ i >= 2 /\ toks[i - 1] = Token("punct", <<":">>)

(***************************************************************************)
(* C4: a text in which two values of an array, or two pairs of an object,  *)
(* are separated by whitespace only (spaces or a line break) and no comma  *)
(* is never parsed into a Value: parse_value returns an error.             *)
(***************************************************************************)
C4_MissingCommaRejected ==
    (run = 1 /\ Returned /\ ret.tag = "ok") => ~MissingComma(input)

(***************************************************************************)
(* Where the cursor is in the text                                         *)
(***************************************************************************)
RECURSIVE SumLen(_)
SumLen(ls) == IF ls = <<>> THEN 0 ELSE 1 + Len(Head(ls)) + SumLen(Tail(ls))

\* the number of characters of the text, line breaks included, before the cursor
Offset(text, p) ==
    IF ~p.line.some THEN Len(text)
    ELSE Len(text) - ((Len(p.line.chars) - p.pos) + SumLen(p.lines)
                      + (IF text # <<>> /\ text[Len(text)] = NL THEN 1 ELSE 0))

Consumed(text, p) == SubSeq(text, 1, Offset(text, p))

LineBreaks(t) == Cardinality({i \in 1..Len(t) : t[i] = NL})

\* the lines of a text: one per line break, and the unfinished last one
LineCount(t) ==
    LineBreaks(t) + (IF t # <<>> /\ t[Len(t)] # NL THEN 1 ELSE 0)

(***************************************************************************)
(* C5: the line number of a ParseError is the number of the line that      *)
(* holds the character under the cursor when the error is raised; when it  *)
(* is raised with nothing of the input left, it is one more than the       *)
(* number of lines of the input.                                           *)
(***************************************************************************)
C5_ErrorLine ==
    (run = 1 /\ ret.tag = "err")
        => /\ GetCurChar(parser) # NoChar
                => ret.err.line_number = LineBreaks(Consumed(input, parser)) + 1
           /\ RestChars(parser) = <<>>
                => ret.err.line_number = LineCount(input) + 1

(***************************************************************************)
(* The tree read token by token                                            *)
(***************************************************************************)
Punct(c) == Token("punct", <<c>>)

RECURSIVE TreeTokens(_)
RECURSIVE PairsTokens(_)
RECURSIVE ValuesTokens(_)

PairsTokens(pairs) ==
    IF pairs = <<>> THEN <<>>
    ELSE <<Token("string", Head(pairs).key), Punct(":")>> \o TreeTokens(Head(pairs).value)
         \o (IF Len(pairs) > 1 THEN <<Punct(",")>> ELSE <<>>) \o PairsTokens(Tail(pairs))

ValuesTokens(values) ==
    IF values = <<>> THEN <<>>
    ELSE TreeTokens(Head(values))
         \o (IF Len(values) > 1 THEN <<Punct(",")>> ELSE <<>>) \o ValuesTokens(Tail(values))

TreeTokens(v) ==
    CASE v.type = "String" -> <<Token("string", v.text)>>
      [] v.type = "Number" -> <<Token("number", v.text)>>
      [] v.type = "Object" -> <<Punct("{")>> \o PairsTokens(v.items) \o <<Punct("}")>>
      [] v.type = "Array" -> <<Punct("[")>> \o ValuesTokens(v.items) \o <<Punct("]")>>

(***************************************************************************)
(* C6: for every accepted input, the tree and the formatted text hold the  *)
(* tokens of the source that was read, in the order of the source: every   *)
(* pair and every element, duplicates included, and every string and       *)
(* number literal with exactly the characters it has in the source.        *)
(***************************************************************************)
C6_StructuralFidelity ==
    (run = 1 /\ phase = "formatted")
        => LET src == RawTokens(Consumed(input, parser))
           IN  /\ TreeTokens(ret.val) = src
               /\ RawTokens(out) = src

(***************************************************************************)
(* C7: parsing stops at the first failure.  The step that raises the       *)
(* error leaves the cursor on the character the error reports (none at the *)
(* end of the input) and on the line it reports; from then on the cursor,  *)
(* the error and the output never change, and nothing is formatted.        *)
(***************************************************************************)
C7_FailFast ==
    [][/\ ret'.tag = "err"
            => /\ ret'.val = NoValue
               /\ ret'.err.message.found = GetCurChar(parser')
               /\ ret'.err.line_number = parser'.line_number
       /\ ret.tag = "err"
            => /\ parser' = parser
               /\ ret' = ret
               /\ out' = out
               /\ run' = run
               /\ phase' \in {"parsing", "failed"}
               /\ Len(stack') <= Len(stack)]_vars

\* an error raised two composites deep is on its way up, the cursor still on
\* the character it reports
C7_Witness ==
    /\ ret.tag = "err" /\ Len(stack) >= 2
    /\ ret.err.message.kind = "expected"
    /\ ret.err.message.found # NoChar
    /\ GetCurChar(parser) = ret.err.message.found

(***************************************************************************)
(* The text from the cursor on, line breaks included                       *)
(***************************************************************************)
RECURSIVE JoinLines(_)
JoinLines(ls) == IF ls = <<>> THEN <<>> ELSE <<NL>> \o Head(ls) \o JoinLines(Tail(ls))

RawRest(p) ==
    IF p.line.some
    THEN SubSeq(p.line.chars, p.pos + 1, Len(p.line.chars)) \o JoinLines(p.lines)
    ELSE <<>>

Blank(c) == c = SP \/ c = NL

\* t is open, then n - 1 spaces and line breaks, then close, then anything
EmptyAhead(t, open, close, n) ==
    /\ n >= 1 /\ n < Len(t)
    /\ t[1] = open /\ t[n + 1] = close
    /\ \A i \in 2..n : Blank(t[i])

WithoutLineBreaks(t) == SelectSeq(t, LAMBDA c : c # NL)

Composites ==
    {[fn |-> "parse_object", open |-> "{", close |-> "}", empty |-> ObjectValue(<<>>)],
     [fn |-> "parse_array", open |-> "[", close |-> "]", empty |-> ArrayValue(<<>>)]}

(***************************************************************************)
(* C8: wherever parse_object is called on `{`, any number of spaces and    *)
(* line breaks, `}`, it returns the Object with no pairs and leaves the    *)
(* cursor right after the `}`; that Object is formatted as `{}` at every   *)
(* depth, and is printed as `{}` when it is the whole document.  The same  *)
(* holds of parse_array, `[`, `]` and the Array with no values.            *)
(***************************************************************************)
C8_EmptyComposites ==
    [][\A c \in Composites :
         /\ \A n \in 1..Len(RawRest(parser)) :
              (/\ Running /\ Top.fn = c.fn /\ Top.pc = "entry"
               /\ EmptyAhead(RawRest(parser), c.open, c.close, n))
                => /\ ret' = Ok(c.empty)
                   /\ stack' = Caller
                   /\ RestChars(parser')
                        = WithoutLineBreaks(SubSeq(RawRest(parser), n + 2,
                                                   Len(RawRest(parser))))
                   /\ \A d \in 0..Len(stack) :
                        Format([depth |-> d], ret'.val)
                          = [f |-> [depth |-> d], text |-> <<c.open, c.close>>]
         /\ (/\ phase = "parsing" /\ phase' = "formatted"
             /\ EmptyAhead(input, c.open, c.close, Len(input) - 1))
                => out' = <<c.open, c.close>>]_vars

\* inside another composite, parse_object has returned the empty Object for
\* `{`, a space, a line break, `}`
C8_Witness ==
    /\ run = 1 /\ stack # <<>> /\ ret = Ok(ObjectValue(<<>>))
    /\ \E i \in 1..Len(input) :
          /\ i + 3 = Offset(input, parser)
          /\ SubSeq(input, i, i + 3) = <<"{", SP, NL, "}">>

(***************************************************************************)
(* C9: parse_number never fails.  It returns Number(t), t being an         *)
(* optional `-` and then the longest run of digits and dots that starts at *)
(* the cursor, possibly none, and it leaves the cursor on the first        *)
(* character after t.  The characters are those the cursor moves over: a   *)
(* line break is not one of them.                                          *)
(***************************************************************************)
RawNumber(t) ==
    IF t # <<>> /\ Head(t) = "-"
    THEN <<"-">> \o SubSeq(Tail(t), 1, RawRun(Tail(t)))
    ELSE SubSeq(t, 1, RawRun(t))

OutsideString(t, i) == Cardinality({j \in 1..(i - 1) : t[j] = Q}) % 2 = 0 /\ t[i] # Q

\* how many composites are open before position i of t
OpenAt(t, i) ==
    Cardinality({j \in 1..(i - 1) : OutsideString(t, j) /\ t[j] \in {"{", "["}})
    - Cardinality({j \in 1..(i - 1) : OutsideString(t, j) /\ t[j] \in {"}", "]"}})

\* the number of spaces at the start of the line that starts at position i
LeadingSpaces(t, i) ==
    CHOOSE k \in 0..(Len(t) - i + 1) :
        /\ \A j \in i..(i + k - 1) : t[j] = SP
        /\ (i + k <= Len(t) => t[i + k] # SP)

LineStarts(t) == {i \in 2..Len(t) : t[i - 1] = NL}

Indented(t) ==
    /\ t # <<>> /\ t[1] # SP /\ t[Len(t)] # NL
    /\ \A i \in LineStarts(t) :
          LET k == LeadingSpaces(t, i)
          IN  /\ i + k <= Len(t)
              /\ IF t[i + k] \in {"}", "]"}
                 THEN k = 4 * (OpenAt(t, i) - 1)
                 ELSE k = 4 * OpenAt(t, i)
    /\ \A i \in 1..(Len(t) - 1) :
          (OutsideString(t, i) /\ t[i] \in {"{", "["})
            => \/ t[i] = "{" /\ t[i + 1] = "}"
               \/ t[i] = "[" /\ t[i + 1] = "]"
               \/ /\ t[i + 1] = NL
                  /\ t[i + 1 + LeadingSpaces(t, i + 2) + 1] \notin {"}", "]"}

(***************************************************************************)
(* C10: format leaves depth as it found it, 0 for the driver's Formatter.  *)
(* In the text, the line of a pair or element of a composite nested k deep *)
(* starts with exactly 4 * (k + 1) spaces and the line of its closing      *)
(* brace or bracket with exactly 4 * k; an empty composite is printed as   *)
(* `{}` or `[]`, with no line break and no space.                          *)
(***************************************************************************)
C10_DepthDiscipline ==
    phase = "formatted" => (formatter.depth = 0 /\ Indented(out))

\* a text with a line three composites deep has been printed
C10_Witness ==
    /\ run = 1 /\ phase = "formatted"
    /\ \E i \in LineStarts(out) : LeadingSpaces(out, i) = 12

(***************************************************************************)
(* Progress of the cursor through the stream                               *)
(***************************************************************************)
\* cursor p lies before cursor q: an earlier line, or earlier in the same line
CursorBefore(p, q) ==
    \/ p.line_number < q.line_number
    \/ p.line_number = q.line_number /\ p.pos < q.pos

\* what of the stream lies at or after the cursor: the characters left in the
\* current line, the line itself, and the lines not yet fetched
Left(p) ==
    IF p.line.some THEN (Len(p.line.chars) - p.pos) + 1 + SumLen(p.lines) ELSE 0

\* how many times the reader has been asked for its next line between p and q
Fetched(p, q) == (Len(p.lines) - Len(q.lines)) + (IF q.line.some THEN 0 ELSE 1)

\* succ called with the cursor on a character, as every loop calls it: the
\* cursor comes to rest strictly further on, each round of the loop of succ
\* having taken one line from the reader and counted it
SuccAdvances(p) ==
    LET q == Succ(p)
    IN  /\ CursorBefore(p, q)
        /\ Left(q) < Left(p)
        /\ q.line_number >= p.line_number
        /\ q.line_number - p.line_number = Fetched(p, q)
        /\ q.line_number = p.line_number => (q.line = p.line /\ q.pos = p.pos + 1)
        /\ q.line_number > p.line_number => q.pos = 0
        /\ ~q.line.some \/ q.pos < Len(q.line.chars)

\* every round of a loop that calls succ from p on, as far as the stream goes
RECURSIVE LoopsAdvance(_)
LoopsAdvance(p) ==
    IF GetCurChar(p) = NoChar THEN TRUE
    ELSE SuccAdvances(p) /\ LoopsAdvance(Succ(p))

\* parse_object or parse_array goes round its loop once more
LoopsAgain ==
    /\ Running /\ Top.fn \in {"parse_object", "parse_array"} /\ Top.pc = "value"
    /\ stack' # <<>> /\ Len(stack') = Len(stack) /\ stack'[Len(stack')].pc = "loop"

====
